---- MODULE Spec2Model ----
(***************************************************************************)
(* Verification model of the Solana copy-trading bot:                      *)
(*   - GlobalRateLimiter (rate_limiter.py): wait / handle_429 /            *)
(*     reset_backoff on the process-wide singleton;                        *)
(*   - SolanaTradingBot (solana_trade_bot.py): run(), monitor_wallet(),    *)
(*     _clean_old_transactions().                                          *)
(*                                                                         *)
(* Time.  The limiter only ever uses time.time() - self.last_request, so   *)
(* the pair (clock, last_request) is kept as that difference, `elapsed`,   *)
(* in whole seconds, saturated at ElapsedCap (>= min_interval): every      *)
(* value at or above min_interval takes the same branch of wait().         *)
(* asyncio.sleep(d) lets at least d seconds pass: d .. d + MaxSlack when    *)
(* the gate is driven on its own, exactly d inside the monitor, whose      *)
(* control flow never depends on the clock.                                *)
(***************************************************************************)
EXTENDS Integers, Sequences, FiniteSets, TLC

\* ------------------------------------------------------------------ bounds
MaxSlack == 1        \* a sleep overshoots its duration by at most this much
ElapsedCap == 6      \* saturation of `elapsed` (must be >= min_interval)
MaxRejections == 6   \* consecutive handle_429() calls the gate harness issues

\* ------------------------------------------------- constants of the program
INITIAL_BACKOFF == 5     \* rate_limiter.py:20  backoff_time = 5
MIN_INTERVAL == 5        \* rate_limiter.py:19  min_interval = 5.0
BACKOFF_CEILING == 60    \* rate_limiter.py:36  min(..., 60)

Min(a, b) == IF a < b THEN a ELSE b

RECURSIVE Pow2(_)
Pow2(n) == IF n = 0 THEN 1 ELSE 2 * Pow2(n - 1)

\* time passing: the saturated difference time.time() - last_request
Sat(t) == IF t > ElapsedCap THEN ElapsedCap ELSE t
Pass(rl, d) == [rl EXCEPT !.elapsed = Sat(rl.elapsed + d)]

\* --------------------------------------------------------------- the gate
\* GlobalRateLimiter.__new__: the state of the singleton at first construction
\* (last_request = 0 against an epoch clock: elapsed is far above min_interval)
NewRateLimiter ==
    [elapsed |-> ElapsedCap, min_interval |-> MIN_INTERVAL,
     backoff_time |-> INITIAL_BACKOFF]

\* GlobalRateLimiter._instance before the first construction
None == [instance |-> FALSE]

\* GlobalRateLimiter(): __new__ creates and initialises the instance only when
\* cls._instance is None, and returns cls._instance
GlobalRateLimiterReinitialised(_instance) == NewRateLimiter

GlobalRateLimiter(_instance) ==
    IF _instance = None THEN NewRateLimiter ELSE _instance

\* wait(): the delay it asks asyncio.sleep for (0: it does not suspend)
WaitDelayShort(rl) ==
    IF rl.elapsed < rl.min_interval THEN rl.min_interval - rl.elapsed - 1 ELSE 0

WaitDelay(rl) ==
    IF rl.elapsed < rl.min_interval THEN rl.min_interval - rl.elapsed ELSE 0

\* wait(): the state when it returns (self.last_request = time.time())
wait(rl) == [rl EXCEPT !.elapsed = 0]

\* handle_429(), line 35: what it asks asyncio.sleep for
BackoffSleepDoubled(rl) == Min(rl.backoff_time * 2, BACKOFF_CEILING)

BackoffSleep(rl) == rl.backoff_time

\* handle_429(): sleep(backoff_time), then double it, capped at 60
handle_429_uncapped(rl, slack) ==
    [Pass(rl, rl.backoff_time + slack) EXCEPT !.backoff_time = rl.backoff_time * 2]

handle_429(rl, slack) ==
    [Pass(rl, BackoffSleep(rl) + slack)
        EXCEPT !.backoff_time = Min(rl.backoff_time * 2, BACKOFF_CEILING)]

\* reset_backoff()
reset_backoff_to_retry_delay(rl) == [rl EXCEPT !.backoff_time = 1]

reset_backoff_keeps(rl) == rl

reset_backoff(rl) == [rl EXCEPT !.backoff_time = 5]


\* ------------------------------------------------------------ the monitor
\* scaled stand-ins, so that a clean-up happens within a few cycles:
NumWallets == 2      \* tracked wallets handed to the constructor (at most)
NumSigs == 4         \* distinct signatures the RPC node can return
BatchSize == 2       \* TRANSACTION_BATCH_SIZE (50): signatures per response
CleanLimit == 3      \* 1000: _clean_old_transactions trims above this size
KeepCount == 2       \* 500: how many signatures a trim keeps
MaxIx == 2           \* instructions in one transaction
MaxAccounts == 2     \* entries of a preBalances / postBalances list
MaxBalance == 8      \* largest balance of an account, in lamports
LamportsPerSol == 4  \* 1e9: lamports in one SOL
NumCallers == 2      \* coroutines calling wait() on the one rate limiter
NumCandidates == 2   \* wallet addresses one discovery analyses (at most)
MaxAnalyzed == 15    \* 100: signatures one wallet analysis examines (at most)

MAX_RETRIES == 3             \* solana_config.py:78
WALLET_MONITOR_DELAY == 2      \* solana_config.py:83
LOOP_ERROR_DELAY == 5          \* solana_trade_bot.py:308
MIN_SOL_BALANCE == 1           \* solana_config.py:44 (1.0 SOL)
MIN_TRADES_DAY == 2            \* solana_config.py:45
MIN_SUCCESS_RATE_PCT == 50     \* solana_config.py:46 (0.5, in hundredths)
MIN_PROFIT_TRADE_PCT == 1      \* solana_config.py:47 (0.01, in hundredths)
ANALYSIS_PERIOD_DAYS == 7      \* solana_config.py:48
MONITORING_INTERVAL == 60    \* solana_config.py:69

Sigs == 1..NumSigs

\* response.value of get_signatures_for_address: 1..BatchSize distinct signatures
Batches ==
    {b \in UNION {[1..n -> Sigs] : n \in 1..BatchSize} :
        \A i, j \in DOMAIN b : i # j => b[i] # b[j]}

\* self.dex_programs.values()
dex_programs == {"Raydium", "Jupiter", "Orca"}

\* an instruction: its programId, whether it carries a tokenAddress, and
\* whether it is a dict at all (an object without .get makes instruction.get
\* raise AttributeError)
Instructions == [programId : dex_programs \cup {"Token"}, tokenAddress : BOOLEAN,
                 dict : BOOLEAN]
Txs == UNION {[1..n -> Instructions] : n \in 0..MaxIx}

\* _is_swap_instruction: the except clause turns any exception into False
_is_swap_instruction(ix) == ix.dict /\ ix.programId \in dex_programs

\* the exceptions _is_swap_instruction catches while a transaction is examined
Swallowed(tx) == Cardinality({i \in DOMAIN tx : ~tx[i].dict})

\* the transaction references a known DEX program: it is a trade
IsTrade(tx) == \E i \in DOMAIN tx : tx[i].programId \in dex_programs

\* the trade records one fetched transaction produces (one per swap instruction)
TradeRecords(tx) == Cardinality({i \in DOMAIN tx : _is_swap_instruction(tx[i])})

\* the get_jupiter_price requests issued while logging it (USE_JUPITER_PRICE)
PriceCalls(tx) ==
    Cardinality({i \in DOMAIN tx : _is_swap_instruction(tx[i]) /\ tx[i].tokenAddress})

\* what examining a fetched transaction can emit (lines 226-255)
TxEffects ==
    {[logs |-> TradeRecords(tx), price_calls |-> PriceCalls(tx),
      trade |-> IsTrade(tx), swallowed |-> Swallowed(tx)] : tx \in Txs}

\* monitor_wallet line 190: if sig_info.signature in self.processed_transactions
NeverProcessed(sig, processed) == FALSE

IsProcessed(sig, processed) == sig \in processed

\* line 194: self.processed_transactions.add(sig_info.signature)
AddProcessedNotYet(processed, sig) == processed

AddProcessed(processed, sig) == processed \cup {sig}

\* "429" in str(e)
Is429Never(outcome) == FALSE

Is429Always(outcome) == TRUE

Is429(outcome) == outcome = "429"

\* for attempt in range(MAX_RETRIES): is there a next iteration
RangeHasNextOffByOne(attempt) == attempt + 1 <= MAX_RETRIES

RangeHasNext(attempt) == attempt + 1 < MAX_RETRIES

\* line 218: if attempt < MAX_RETRIES - 1: continue
RetryAllowed(attempt) == attempt < MAX_RETRIES - 1

\* lines 216-220: an attempt that raised a rate-limit error
RateLimitedAttemptNoBackoff(rl, attempt, slack) ==
    [rl |-> rl, handled |-> 0, retry |-> RetryAllowed(attempt)]

RateLimitedAttempt(rl, attempt, slack) ==
    [rl |-> handle_429(rl, slack), handled |-> 1, retry |-> RetryAllowed(attempt)]

\* _clean_old_transactions: set(list(self.processed_transactions)[-500:]).
\* A Python set iterates in hash order, not insertion order: the slice keeps
\* KeepCount elements, and which ones is not determined by the program.
CleanOutcomesKeepsAll(processed) == {processed}

CleanOutcomes(processed) ==
    IF Cardinality(processed) > CleanLimit
    THEN {S \in SUBSET processed : Cardinality(S) = KeepCount}
    ELSE {processed}

\* the subsequence of seq whose elements are in S
RECURSIVE Restrict(_, _)
Restrict(seq, S) ==
    IF seq = <<>> THEN <<>>
    ELSE IF Head(seq) \in S THEN <<Head(seq)>> \o Restrict(Tail(seq), S)
         ELSE Restrict(Tail(seq), S)

\* the set of the last n elements of seq
LastN(seq, n) == {seq[i] : i \in {j \in DOMAIN seq : j > Len(seq) - n}}

\* ------------------------------------------------- _parse_token_amounts
\* the balance lists a transaction's meta can carry, in lamports
Lamports == 0..MaxBalance
BalanceLists == UNION {[1..n -> Lamports] : n \in 0..MaxAccounts}

\* abs()
AbsSigned(n) == n

Abs(n) == IF n < 0 THEN 0 - n ELSE n

\* sum(post - pre for post, pre in zip(post_balances, pre_balances)): zip stops
\* at the end of the shorter list
RECURSIVE ZipSum(_, _)
ZipSum(post, pre) ==
    IF post = <<>> \/ pre = <<>> THEN 0
    ELSE (Head(post) - Head(pre)) + ZipSum(Tail(post), Tail(pre))

\* x / 1e9: the quotient, exactly, as whole SOL and the lamports left over
ToSol(lamports) ==
    [whole |-> lamports \div LamportsPerSol,
     nano |-> lamports % LamportsPerSol]

\* _parse_token_amounts(transaction): transaction.get raises for a value that
\* is not a dict and the except clause returns 0; a missing 'meta',
\* 'preBalances' or 'postBalances' reads as the empty list
_parse_token_amounts(transaction) ==
    IF ~transaction.dict THEN ToSol(0)
    ELSE LET pre_balances == transaction.preBalances
             post_balances == transaction.postBalances
         IN  IF pre_balances # <<>> /\ post_balances # <<>>
             THEN ToSol(Abs(ZipSum(post_balances, pre_balances)))
             ELSE ToSol(0)

\* ------------------------------------ _analyze_wallet_transactions
\* a fetched transaction as the analysis reads it: whether the response has a
\* value, which known DEX programs are among its account keys, and whether
\* meta.status is Ok
FinderTxs ==
    {[value |-> FALSE, programs |-> {}, ok |-> FALSE]} \cup
    [value : {TRUE}, programs : SUBSET dex_programs, ok : BOOLEAN]

\* lines 223-224: any(str(account.pubkey) == RAYDIUM_PROGRAM_ID for account in
\* tx.value.transaction.message.account_keys)
InvolvesDex(tx) == "Raydium" \in tx.programs

\* the balances a wallet can have: none, just below the minimum, the minimum,
\* and the largest
FinderBalances == {0, MIN_SOL_BALANCE * LamportsPerSol - 1,
                   MIN_SOL_BALANCE * LamportsPerSol, MaxBalance}

\* lines 231-234: a successful trade counts as profitable when len(trades),
\* taken after it was appended, is even
CountsAsProfitWhenSuccessful(success, trades) == success

CountsAsProfit(success, trades) == success /\ trades % 2 = 0

\* _setup_tracked_wallets(discovered_wallets): [] for None or an empty list,
\* else one tracked wallet for each discovered wallet (they are all dicts)
_setup_tracked_wallets(discovered_wallets) ==
    IF discovered_wallets = {} THEN 0 ELSE Cardinality(discovered_wallets)

\* main.py line 84: SolanaTradingBot() is constructed with no argument, so
\* discovered_wallets is the default None, whatever discovery returned
BotDiscoveredWallets(profitable_wallets) == {}

\* line 203: sol_balance < MIN_SOL_BALANCE, with sol_balance = lamports / 1e9
LowBalance(lamports) == lamports < MIN_SOL_BALANCE * LamportsPerSol

\* lines 253-261: the three comparisons of the metrics against the minimums.
\* a / b < c is compared as a < c * b (b > 0), rates in hundredths.
MeetsCriteriaStrictly(total_trades, success_count, profit_count) ==
    /\ ~(total_trades <= MIN_TRADES_DAY * ANALYSIS_PERIOD_DAYS)
    /\ ~(success_count * 100 <= MIN_SUCCESS_RATE_PCT * total_trades)
    /\ ~(profit_count * 100 <= MIN_PROFIT_TRADE_PCT * total_trades)

MeetsCriteria(total_trades, success_count, profit_count) ==
    /\ ~(total_trades < MIN_TRADES_DAY * ANALYSIS_PERIOD_DAYS)
    /\ ~(success_count * 100 < MIN_SUCCESS_RATE_PCT * total_trades)
    /\ ~(profit_count * 100 < MIN_PROFIT_TRADE_PCT * total_trades)

VARIABLES
    rate_limiter,   \* the GlobalRateLimiter singleton
    gate,           \* history: the last gate operation and what it did
    tracked_wallets,          \* self.tracked_wallets (how many; wallets 1..n)
    processed_transactions,   \* self.processed_transactions
    pc,             \* where run() / monitor_wallet() stands
    wallet,         \* index of the wallet of the for loop in run()
    transactions,   \* response.value
    sig_index,      \* position of sig_info in transactions
    attempt,        \* the retry loop's attempt
    waited,         \* history: wait() has returned since the last outbound call
    order,          \* history: processed_transactions in order of insertion
    fetched,        \* history: the signatures a retry loop was ever begun for
    last,           \* history: what the last step of the monitor did
    parse,          \* a call of _parse_token_amounts: its argument and result
    analysis,       \* a call of _analyze_wallet_transactions: where it stands
    race            \* coroutines inside wait(), interleaving at its await

vars == <<rate_limiter, gate, tracked_wallets, processed_transactions, pc, wallet,
          transactions, sig_index, attempt, waited, order, fetched, last,
          parse, analysis, race>>

monitor_vars == <<tracked_wallets, processed_transactions, pc, wallet,
                  transactions, sig_index, attempt, waited, order, fetched, last,
                  parse, analysis, race>>

monitor_vars_of_bot ==
    <<tracked_wallets, processed_transactions, pc, wallet, transactions,
      sig_index, attempt, waited, order, fetched, last>>

NoGateOp == [op |-> "none", slept |-> 0, entry_elapsed |-> 0,
             entry_backoff |-> 0, rejections |-> 0, resets |-> 0]

NoStep == [call |-> "none", outcome |-> "none", sig |-> 0, exit |-> "none",
           gated |-> TRUE, calls |-> 0, handled |-> 0, reset |-> FALSE,
           logs |-> 0, price_calls |-> 0, trade |-> FALSE,
           caught |-> FALSE, error_log |-> "none", loop_sleep |-> 0]

\* no call of _parse_token_amounts is being looked at
NoParse == [state |-> "none", dict |-> TRUE, preBalances |-> <<>>,
            postBalances |-> <<>>, amount |-> ToSol(0)]

\* SolanaTradingBot.__init__ (with GlobalRateLimiter() constructed first)
InitBot ==
    /\ rate_limiter = GlobalRateLimiter(None)
    /\ gate = NoGateOp
    /\ tracked_wallets \in {0, NumWallets}
    /\ processed_transactions = {}
    /\ pc = "loop"
    /\ wallet = 0
    /\ transactions = <<>>
    /\ sig_index = 0
    /\ attempt = 0
    /\ waited = FALSE
    /\ order = <<>>
    /\ fetched = {}
    /\ last = NoStep

\* no call of _analyze_wallet_transactions is being looked at
NoTx == [value |-> FALSE, programs |-> {}, ok |-> FALSE]

NoAnalysis == [pc |-> "none", tracked |-> FALSE, listed |-> FALSE, balance |-> 0,
               examined |-> 0, total_trades |-> 0, success_count |-> 0,
               profit_count |-> 0, tx |-> NoTx, counted |-> FALSE,
               raised |-> FALSE, result |-> "none", candidate |-> 0,
               discovered |-> {}]

\* no coroutine is inside wait(); no return of wait() has been seen
NoRace == [co |-> [c \in 1..NumCallers |-> [pc |-> "out", remaining |-> 0]],
           since_return |-> ElapsedCap, returns |-> 0, gap |-> ElapsedCap]

Init == InitBot /\ parse = NoParse /\ analysis = NoAnalysis /\ race = NoRace

\* ------------------------------------------ the gate driven by any caller
GateWait ==
    \E slack \in 0..MaxSlack :
        /\ rate_limiter' = wait(rate_limiter)
        /\ gate' = [gate EXCEPT
              !.op = "wait",
              !.slept = IF WaitDelay(rate_limiter) > 0
                        THEN WaitDelay(rate_limiter) + slack ELSE 0,
              !.entry_elapsed = rate_limiter.elapsed,
              !.entry_backoff = rate_limiter.backoff_time]
        /\ UNCHANGED monitor_vars

GateHandle429 ==
    /\ gate.rejections < MaxRejections
    /\ \E slack \in 0..MaxSlack :
        /\ rate_limiter' = handle_429(rate_limiter, slack)
        /\ gate' = [op |-> "handle_429",
                    slept |-> BackoffSleep(rate_limiter) + slack,
                    entry_elapsed |-> rate_limiter.elapsed,
                    entry_backoff |-> rate_limiter.backoff_time,
                    rejections |-> gate.rejections + 1,
                    resets |-> gate.resets]
        /\ UNCHANGED monitor_vars

GateResetBackoff ==
    /\ rate_limiter' = reset_backoff(rate_limiter)
    /\ gate' = [op |-> "reset_backoff", slept |-> 0,
                entry_elapsed |-> rate_limiter.elapsed,
                entry_backoff |-> rate_limiter.backoff_time,
                rejections |-> 0,
                resets |-> Min(gate.resets + 1, 2)]
    /\ UNCHANGED monitor_vars

\* a second of the caller's own work between two gate calls
GateTick ==
    /\ rate_limiter.elapsed < ElapsedCap
    /\ rate_limiter' = Pass(rate_limiter, 1)
    /\ gate' = [gate EXCEPT !.op = "tick", !.slept = 0,
                            !.entry_elapsed = rate_limiter.elapsed,
                            !.entry_backoff = rate_limiter.backoff_time]
    /\ UNCHANGED monitor_vars

\* another GlobalRateLimiter() somewhere in the process
GateConstruct ==
    /\ rate_limiter' = GlobalRateLimiter(rate_limiter)
    /\ gate' = [gate EXCEPT !.op = "construct", !.slept = 0,
                            !.entry_elapsed = rate_limiter.elapsed,
                            !.entry_backoff = rate_limiter.backoff_time]
    /\ UNCHANGED monitor_vars

NextGate ==
    GateWait \/ GateHandle429 \/ GateResetBackoff \/ GateTick \/ GateConstruct

InitGate == Init /\ tracked_wallets = 0

SpecGate == InitGate /\ [][NextGate]_vars

\* ------------------------------------------------------------------ run()
Step(call, outcome, sig, exit, gated, calls, handled, reset, logs, price_calls) ==
    [call |-> call, outcome |-> outcome, sig |-> sig, exit |-> exit,
     gated |-> gated, calls |-> calls, handled |-> handled, reset |-> reset,
     logs |-> logs, price_calls |-> price_calls, trade |-> FALSE,
     caught |-> FALSE, error_log |-> "none", loop_sleep |-> 0]

\* the step went through an except clause; error_log is the level of the log
\* call that clause (or the handle_429() it calls) makes, "none" if it makes none
Caught(step, level) == [step EXCEPT !.caught = TRUE, !.error_log = level]

\* the step ends an iteration of the while loop with asyncio.sleep(d)
LoopSleep(step, d) == [step EXCEPT !.loop_sleep = d]

\* run(), lines 306-308: an exception of the cycle delay reaches the handler
\* of the while loop: logger.error, sleep(5), next iteration
LoopErrorNoDelay ==
    /\ rate_limiter' = rate_limiter
    /\ last' = Caught(Step("none", "error", 0, "loop_error", TRUE, 0, 0, FALSE,
                           0, 0), "error")

LoopError ==
    /\ rate_limiter' = Pass(rate_limiter, LOOP_ERROR_DELAY)
    /\ last' = LoopSleep(Caught(Step("none", "error", 0, "loop_error", TRUE,
                                     0, 0, FALSE, 0, 0), "error"),
                         LOOP_ERROR_DELAY)

\* run(), lines 284-287: no wallets to monitor
RunEmpty ==
    /\ pc = "loop"
    /\ tracked_wallets = 0
    /\ \/ /\ rate_limiter' = Pass(rate_limiter, MONITORING_INTERVAL)
          /\ last' = LoopSleep(Step("none", "none", 0, "idle", TRUE, 0, 0,
                                    FALSE, 0, 0), MONITORING_INTERVAL)
       \/ LoopError
    /\ UNCHANGED <<gate, parse, analysis, race, tracked_wallets, processed_transactions, pc, wallet,
                   transactions, sig_index, attempt, waited, order, fetched>>

\* run(), line 289: the for loop over the tracked wallets begins
RunCycle ==
    /\ pc = "loop"
    /\ tracked_wallets > 0
    /\ pc' = "wallet"
    /\ wallet' = 1
    /\ last' = Step("none", "none", 0, "cycle", TRUE, 0, 0, FALSE, 0, 0)
    /\ UNCHANGED <<rate_limiter, gate, parse, analysis, race, tracked_wallets, processed_transactions,
                   transactions, sig_index, attempt, waited, order, fetched>>

ReturnEndsCycle(rl) ==
    /\ rate_limiter' = Pass(rl, WALLET_MONITOR_DELAY)
    /\ pc' = "clean"
    /\ wallet' = 0
    /\ transactions' = <<>>
    /\ sig_index' = 0
    /\ attempt' = 0

\* monitor_wallet returns; run()'s finally sleeps WALLET_MONITOR_DELAY and the
\* for loop goes to the next wallet, or past its end to the clean-up
Return(rl) ==
    /\ rate_limiter' = Pass(rl, WALLET_MONITOR_DELAY)
    /\ IF wallet < tracked_wallets
       THEN pc' = "wallet" /\ wallet' = wallet + 1
       ELSE pc' = "clean" /\ wallet' = 0
    /\ transactions' = <<>>
    /\ sig_index' = 0
    /\ attempt' = 0

\* monitor_wallet, lines 172-187 and 261-266: wait(), get_signatures_for_address
MonitorWallet ==
    /\ pc = "wallet"
    /\ \E outcome \in {"value", "no_value", "429", "error"} :
        LET rl == wait(rate_limiter) IN
        CASE outcome = "value" ->
                /\ \E b \in Batches : transactions' = b
                /\ rate_limiter' = reset_backoff(rl)
                /\ pc' = "scan"
                /\ sig_index' = 1
                /\ last' = Step("get_signatures", outcome, 0, "listed", TRUE,
                                0, 0, TRUE, 0, 0)
                /\ UNCHANGED <<wallet, attempt>>
          [] outcome = "no_value" ->
                /\ Return(rl)
                /\ last' = Step("get_signatures", outcome, 0, "return", TRUE,
                                0, 0, FALSE, 0, 0)
          [] outcome \in {"429", "error"} /\ Is429(outcome) ->
                /\ Return(handle_429(rl, 0))
                /\ last' = Caught(Step("get_signatures", outcome, 0, "return",
                                       TRUE, 0, 1, FALSE, 0, 0), "info")
          [] outcome \in {"429", "error"} /\ ~Is429(outcome) ->
                /\ Return(rl)
                /\ last' = Caught(Step("get_signatures", outcome, 0, "return",
                                       TRUE, 0, 0, FALSE, 0, 0), "debug")
    /\ waited' = FALSE
    /\ UNCHANGED <<gate, parse, analysis, race, tracked_wallets, processed_transactions, order, fetched>>

\* lines 189-191: a signature that is in the processed set is skipped
ScanSkip ==
    /\ pc = "scan"
    /\ sig_index <= Len(transactions)
    /\ IsProcessed(transactions[sig_index], processed_transactions)
    /\ sig_index' = sig_index + 1
    /\ last' = Step("none", "none", transactions[sig_index], "skip", TRUE,
                    0, 0, FALSE, 0, 0)
    /\ UNCHANGED <<rate_limiter, gate, parse, analysis, race, tracked_wallets, processed_transactions,
                   pc, wallet, transactions, attempt, waited, order, fetched>>

\* lines 193-198: a new signature is added, then wait() before the retry loop
ScanNew ==
    /\ pc = "scan"
    /\ sig_index <= Len(transactions)
    /\ ~IsProcessed(transactions[sig_index], processed_transactions)
    /\ LET sig == transactions[sig_index] IN
        /\ processed_transactions' = AddProcessed(processed_transactions, sig)
        /\ order' = IF sig \in processed_transactions THEN order
                    ELSE Append(order, sig)
        /\ fetched' = fetched \cup {sig}
        /\ last' = Step("none", "none", sig,
                        IF sig \in fetched THEN "again" ELSE "new",
                        TRUE, 0, 0, FALSE, 0, 0)
    /\ rate_limiter' = wait(rate_limiter)
    /\ waited' = TRUE
    /\ pc' = "fetch"
    /\ attempt' = 0
    /\ UNCHANGED <<gate, parse, analysis, race, tracked_wallets, wallet, transactions, sig_index>>

\* the for loop over transactions is exhausted: monitor_wallet returns
ScanDone ==
    /\ pc = "scan"
    /\ sig_index > Len(transactions)
    /\ Return(rate_limiter)
    /\ last' = Step("none", "none", 0, "return", TRUE, 0, 0, FALSE, 0, 0)
    /\ UNCHANGED <<gate, parse, analysis, race, tracked_wallets, processed_transactions, waited, order,
                   fetched>>

\* `continue` of the outer for loop: on to the next sig_info
NextSignature ==
    /\ pc' = "scan"
    /\ sig_index' = sig_index + 1
    /\ attempt' = 0

\* `continue` of the retry loop: the next attempt, or the for-else (line 221)
ContinueRetry(call, outcome, handled) ==
    IF RangeHasNext(attempt)
    THEN /\ attempt' = attempt + 1
         /\ UNCHANGED <<pc, sig_index>>
         /\ last' = LET step == Step(call, outcome, transactions[sig_index],
                                     "retry", waited, last.calls + 1, handled,
                                     FALSE, 0, 0)
                    IN  IF handled > 0 THEN Caught(step, "info") ELSE step
    ELSE /\ NextSignature
         /\ last' = LET step == Step(call, outcome, transactions[sig_index],
                                     "exhausted", waited, last.calls + 1,
                                     handled, FALSE, 0, 0)
                    IN  IF handled > 0 THEN Caught(step, "info") ELSE step

\* lines 201-259: one attempt of get_transaction and what follows it
GetTransaction ==
    /\ pc = "fetch"
    /\ \E outcome \in {"value", "no_value", "429", "error"} :
        LET rl == rate_limiter
            sig == transactions[sig_index] IN
        CASE outcome = "value" ->
                \* reset_backoff, break; then the instructions are examined
                /\ rate_limiter' = reset_backoff(rl)
                /\ NextSignature
                /\ \/ \* reading the instructions raises: caught at line 257
                      last' = Caught(Step("get_transaction", outcome, sig,
                                          "raised", waited, last.calls + 1, 0,
                                          TRUE, 0, 0), "debug")
                   \/ \E e \in TxEffects :
                      last' = [Step("get_transaction", outcome, sig, "break",
                                    waited /\ e.price_calls = 0,
                                    last.calls + 1, 0, TRUE,
                                    e.logs, e.price_calls)
                                 EXCEPT !.trade = e.trade,
                                        !.caught = e.swallowed > 0]
          [] outcome = "no_value" ->
                /\ rate_limiter' = rl
                /\ ContinueRetry("get_transaction", outcome, 0)
          [] outcome \in {"429", "error"} /\ Is429(outcome) ->
                LET r == RateLimitedAttempt(rl, attempt, 0) IN
                /\ rate_limiter' = r.rl
                /\ IF r.retry
                   THEN ContinueRetry("get_transaction", outcome, r.handled)
                   ELSE /\ NextSignature
                        /\ last' = Caught(Step("get_transaction", outcome, sig,
                                               "raised", waited, last.calls + 1,
                                               r.handled, FALSE, 0, 0),
                                          IF r.handled > 0 THEN "info"
                                          ELSE "debug")
          [] outcome \in {"429", "error"} /\ ~Is429(outcome) ->
                /\ rate_limiter' = rl
                /\ NextSignature
                /\ last' = Caught(Step("get_transaction", outcome, sig, "raised",
                                       waited, last.calls + 1, 0, FALSE, 0, 0),
                                  "debug")
    /\ waited' = FALSE
    /\ UNCHANGED <<gate, parse, analysis, race, tracked_wallets, processed_transactions, wallet,
                   transactions, order, fetched>>

\* run(), lines 299-304: _clean_old_transactions(), then the cycle delay
EndCycle ==
    /\ pc = "clean"
    /\ \E kept \in CleanOutcomes(processed_transactions) :
        /\ processed_transactions' = kept
        /\ order' = Restrict(order, kept)
    /\ \/ /\ rate_limiter' = Pass(rate_limiter, MONITORING_INTERVAL)
          /\ last' = LoopSleep(Step("none", "none", 0, "cleaned", TRUE, 0, 0,
                                    FALSE, 0, 0), MONITORING_INTERVAL)
       \/ LoopError
    /\ pc' = "loop"
    /\ UNCHANGED <<gate, parse, analysis, race, tracked_wallets, wallet, transactions, sig_index,
                   attempt, waited, fetched>>

\* run(), lines 310-312: KeyboardInterrupt, raised wherever the loop stands, is
\* not an Exception: no handler on the way catches it but the last one, which
\* logs and breaks out of the while loop
Interrupt ==
    /\ pc # "stopped"
    /\ pc' = "stopped"
    /\ wallet' = 0
    /\ transactions' = <<>>
    /\ sig_index' = 0
    /\ attempt' = 0
    /\ waited' = FALSE
    /\ last' = Caught(Step("none", "interrupt", 0, "interrupt", TRUE, 0, 0,
                           FALSE, 0, 0), "info")
    /\ UNCHANGED <<rate_limiter, gate, parse, analysis, race, tracked_wallets, processed_transactions,
                   order, fetched>>

\* one more step of the while loop (every step but the interrupt)
Iterate ==
    \/ RunEmpty
    \/ RunCycle
    \/ MonitorWallet
    \/ ScanSkip
    \/ ScanNew
    \/ ScanDone
    \/ GetTransaction
    \/ EndCycle

Next ==
    \/ RunEmpty
    \/ RunCycle
    \/ MonitorWallet
    \/ ScanSkip
    \/ ScanNew
    \/ ScanDone
    \/ GetTransaction
    \/ EndCycle
    \/ Interrupt

Spec == Init /\ [][Next]_vars

\* ------------------------------------- _parse_token_amounts, called alone
\* the function is entered with any transaction value
InitAmounts ==
    /\ InitBot
    /\ tracked_wallets = 0
    /\ parse \in [state : {"called"}, dict : BOOLEAN,
                  preBalances : BalanceLists, postBalances : BalanceLists,
                  amount : {ToSol(0)}]
    /\ analysis = NoAnalysis
    /\ race = NoRace

\* the function returns
ParseTokenAmounts ==
    /\ parse.state = "called"
    /\ parse' = [parse EXCEPT !.state = "returned",
                              !.amount = _parse_token_amounts(parse)]
    /\ UNCHANGED <<rate_limiter, gate, monitor_vars_of_bot, race, analysis>>

NextAmounts == ParseTokenAmounts

SpecAmounts == InitAmounts /\ [][NextAmounts]_vars

\* ------------------------------ _analyze_wallet_transactions, called alone
\* the function is entered for a wallet: already tracked or not, with or
\* without signatures, with some balance
InitFinder ==
    /\ InitBot
    /\ tracked_wallets = 0
    /\ parse = NoParse
    /\ race = NoRace
    /\ analysis \in {[NoAnalysis EXCEPT !.pc = "start", !.tracked = t,
                                        !.listed = l, !.balance = b,
                                        !.candidate = 1] :
                         t \in BOOLEAN, l \in BOOLEAN, b \in FinderBalances}

\* the function returns: None (rejected) or the metrics dict (accepted);
\* find_profitable_wallets, lines 331-333: a wallet with data is discovered
DecidePropagates(a, result, raised) ==
    [a EXCEPT !.pc = IF raised THEN "crashed" ELSE "done",
              !.result = IF raised THEN "none" ELSE result,
              !.raised = raised, !.tx = NoTx, !.counted = FALSE,
              !.discovered = IF result = "accepted" /\ ~raised
                             THEN @ \cup {a.candidate} ELSE @]

Decide(a, result, raised) ==
    [a EXCEPT !.pc = "done", !.result = result, !.raised = raised,
              !.tx = NoTx, !.counted = FALSE,
              !.discovered = IF result = "accepted"
                             THEN @ \cup {a.candidate} ELSE @]

\* lines 178-205: tracked already, no signatures, or a low balance: None; an
\* exception of get_signatures_for_address or get_balance: logged, None
AnalyzeWallet ==
    /\ analysis.pc = "start"
    /\ \/ analysis' =
             IF analysis.tracked \/ ~analysis.listed \/ LowBalance(analysis.balance)
             THEN Decide(analysis, "rejected", FALSE)
             ELSE [analysis EXCEPT !.pc = "loop"]
       \/ /\ ~analysis.tracked
          /\ analysis' = Decide(analysis, "rejected", TRUE)
    /\ UNCHANGED <<rate_limiter, gate, monitor_vars_of_bot, race, parse>>

\* lines 213-234: one iteration of the loop over signatures.value[:100]
AnalyzeTransaction ==
    /\ analysis.pc = "loop"
    /\ analysis.examined < MaxAnalyzed
    /\ \/ \E tx \in FinderTxs :
            LET trade == tx.value /\ InvolvesDex(tx)
                trades == analysis.total_trades + (IF trade THEN 1 ELSE 0)
                success == trade /\ tx.ok
            IN  analysis' = [analysis EXCEPT
                    !.examined = @ + 1,
                    !.tx = tx,
                    !.counted = trade,
                    !.total_trades = trades,
                    !.success_count = @ + (IF success THEN 1 ELSE 0),
                    !.profit_count =
                        @ + (IF CountsAsProfit(success, trades) THEN 1 ELSE 0)]
       \/ \* get_transaction or reading the response raises: line 282
          analysis' = Decide(analysis, "rejected", TRUE)
    /\ UNCHANGED <<rate_limiter, gate, monitor_vars_of_bot, race, parse>>

\* lines 236-280: the list is exhausted; the metrics decide
AnalyzeDecide ==
    /\ analysis.pc = "loop"
    /\ analysis.examined >= 1
    /\ analysis' =
         IF analysis.total_trades = 0
         THEN Decide(analysis, "rejected", FALSE)
         ELSE IF MeetsCriteria(analysis.total_trades, analysis.success_count,
                               analysis.profit_count)
              THEN Decide(analysis, "accepted", FALSE)
              ELSE Decide(analysis, "rejected", FALSE)
    /\ UNCHANGED <<rate_limiter, gate, monitor_vars_of_bot, race, parse>>

\* find_profitable_wallets, lines 326-330: the next wallet address of the loop
NextCandidate ==
    /\ analysis.pc = "done"
    /\ analysis.candidate < NumCandidates
    /\ \E t \in BOOLEAN, l \in BOOLEAN, b \in FinderBalances :
          analysis' = [NoAnalysis EXCEPT !.pc = "start", !.tracked = t,
                                        !.listed = l, !.balance = b,
                                        !.candidate = analysis.candidate + 1,
                                        !.discovered = analysis.discovered]
    /\ UNCHANGED <<rate_limiter, gate, monitor_vars_of_bot, race, parse>>

\* find_profitable_wallets, lines 335-362: the loop is over (this wallet was
\* the last address); the discovered wallets are returned
FinderReturn ==
    /\ analysis.pc = "done"
    /\ analysis' = [analysis EXCEPT !.pc = "returned"]
    /\ UNCHANGED <<rate_limiter, gate, monitor_vars_of_bot, race, parse>>

\* main.py execute_mode, lines 76-88: nothing found: return; else the trading
\* bot is constructed and run() begins
ExecuteMode ==
    /\ analysis.pc = "returned"
    /\ IF analysis.discovered = {}
       THEN /\ analysis' = [analysis EXCEPT !.pc = "exited"]
            /\ UNCHANGED tracked_wallets
       ELSE /\ analysis' = [analysis EXCEPT !.pc = "monitoring"]
            /\ tracked_wallets' =
                  _setup_tracked_wallets(BotDiscoveredWallets(analysis.discovered))
    /\ UNCHANGED <<rate_limiter, gate, processed_transactions, pc, wallet,
                   transactions, sig_index, attempt, waited, order, fetched,
                   last, race, parse>>

NextFinder ==
    \/ AnalyzeWallet
    \/ AnalyzeTransaction
    \/ AnalyzeDecide
    \/ NextCandidate
    \/ FinderReturn
    \/ ExecuteMode

SpecFinder == InitFinder /\ [][NextFinder]_vars

\* --------------------------- wait() called by coroutines that interleave
\* wait() returns to coroutine c: self.last_request = time.time() (line 31)
RaceReturn(c) ==
    /\ rate_limiter' = wait(rate_limiter)
    /\ race' = [race EXCEPT !.co[c] = [pc |-> "out", remaining |-> 0],
                            !.gap = race.since_return,
                            !.since_return = 0,
                            !.returns = Min(@ + 1, 2)]

\* lines 25-30: coroutine c enters wait(), reads the clock and last_request,
\* and either suspends in asyncio.sleep(delay) or goes straight to line 31
RaceEnter ==
    \E c \in 1..NumCallers :
        /\ race.co[c].pc = "out"
        /\ IF WaitDelay(rate_limiter) > 0
           THEN /\ \E slack \in 0..MaxSlack :
                     race' = [race EXCEPT !.co[c] =
                                [pc |-> "sleeping",
                                 remaining |-> WaitDelay(rate_limiter) + slack]]
                /\ UNCHANGED rate_limiter
           ELSE RaceReturn(c)
        /\ UNCHANGED <<gate, monitor_vars_of_bot, parse, analysis>>

\* the sleep of coroutine c is over: it resumes at line 31
RaceWake ==
    \E c \in 1..NumCallers :
        /\ race.co[c].pc = "sleeping"
        /\ race.co[c].remaining = 0
        /\ RaceReturn(c)
        /\ UNCHANGED <<gate, monitor_vars_of_bot, parse, analysis>>

\* a second passes; a coroutine whose sleep is over resumes first
RaceTick ==
    /\ \A c \in 1..NumCallers :
          race.co[c].pc = "sleeping" => race.co[c].remaining > 0
    /\ \/ rate_limiter.elapsed < ElapsedCap
       \/ \E c \in 1..NumCallers : race.co[c].pc = "sleeping"
    /\ rate_limiter' = Pass(rate_limiter, 1)
    /\ race' = [race EXCEPT
          !.since_return = Sat(@ + 1),
          !.co = [c \in 1..NumCallers |->
                    IF race.co[c].pc = "sleeping"
                    THEN [race.co[c] EXCEPT !.remaining = @ - 1]
                    ELSE race.co[c]]]
    /\ UNCHANGED <<gate, monitor_vars_of_bot, parse, analysis>>

InitRace == Init /\ tracked_wallets = 0

NextRace == RaceEnter \/ RaceWake \/ RaceTick

SpecRace == InitRace /\ [][NextRace]_vars

\* =================================================================== claims

\* C1: after N consecutive handle_429() calls with no reset_backoff() between
\* them, starting from the initial 5, backoff_time = min(5 * 2^N, 60)
\* (so 60, not 80, after 4 rejections).
C1_BackoffAfterN ==
    rate_limiter.backoff_time =
        Min(INITIAL_BACKOFF * Pow2(gate.rejections), BACKOFF_CEILING)

C1_Witness ==
    /\ gate.op = "handle_429"
    /\ gate.rejections = 4
    /\ gate.entry_backoff = 40
    /\ rate_limiter.backoff_time = 60

\* C2: under any interleaving of wait(), handle_429() and reset_backoff(),
\* 5 <= backoff_time <= 60; it grows only by handle_429()'s doubling and
\* shrinks only by reset_backoff().
C2_BackoffBounds ==
    /\ [](/\ INITIAL_BACKOFF <= rate_limiter.backoff_time
          /\ rate_limiter.backoff_time <= BACKOFF_CEILING)
    /\ [][/\ rate_limiter'.backoff_time > rate_limiter.backoff_time =>
                /\ gate'.op = "handle_429"
                /\ rate_limiter'.backoff_time =
                       Min(2 * rate_limiter.backoff_time, BACKOFF_CEILING)
          /\ rate_limiter'.backoff_time < rate_limiter.backoff_time =>
                /\ gate'.op = "reset_backoff"
                /\ rate_limiter'.backoff_time = INITIAL_BACKOFF]_vars

C2_Witness ==
    /\ gate.op = "reset_backoff"
    /\ gate.entry_backoff = BACKOFF_CEILING
    /\ rate_limiter.backoff_time = INITIAL_BACKOFF

\* C3: in one sequential flow two consecutive returns of wait() are at least
\* min_interval apart: entered with elapsed < min_interval it suspends for at
\* least min_interval - elapsed before recording last_request, entered with
\* elapsed >= min_interval it does not suspend.
C3_WaitSpacing ==
    gate.op = "wait" =>
        /\ gate.entry_elapsed < rate_limiter.min_interval =>
               gate.slept >= rate_limiter.min_interval - gate.entry_elapsed
        /\ gate.entry_elapsed >= rate_limiter.min_interval => gate.slept = 0
        /\ gate.entry_elapsed + gate.slept >= rate_limiter.min_interval
        /\ rate_limiter.elapsed = 0

C3_Witness ==
    /\ gate.op = "wait"
    /\ gate.entry_elapsed = 2
    /\ gate.slept = 3

\* C4: every outbound call (RPC or HTTP, retries included) is preceded by a
\* wait() issued after the previous outbound call.
C4_EveryCallGated == last.gated

\* C5: after any RPC call of the monitor that returns without raising,
\* whatever the response holds, reset_backoff() has run: backoff_time is 5
\* before the next external call.
C5_SuccessResetsBackoff ==
    (/\ last.call \in {"get_signatures", "get_transaction"}
     /\ last.outcome \in {"value", "no_value"})
        => rate_limiter.backoff_time = INITIAL_BACKOFF

\* C6: get_transaction is invoked at most MAX_RETRIES times for a new
\* signature; every attempt either is followed by a later-numbered attempt
\* below MAX_RETRIES or ends the loop (so the loop terminates); when all
\* attempts were rate-limited or empty the signature is skipped and the scan
\* goes on with the next signature of the wallet.
C6_BoundedRetries ==
    /\ [](last.calls <= MAX_RETRIES)
    /\ [][pc = "fetch" /\ pc' # "stopped" =>
            /\ \/ /\ pc' = "fetch"
                  /\ attempt' = attempt + 1
                  /\ attempt' < MAX_RETRIES
                  /\ sig_index' = sig_index
               \/ /\ pc' = "scan"
                  /\ sig_index' = sig_index + 1
            /\ last'.calls = attempt + 1
            /\ (last'.outcome \in {"429", "no_value"} /\ pc' = "scan") =>
                  /\ last'.calls = MAX_RETRIES
                  /\ last'.logs = 0
            /\ UNCHANGED <<wallet, transactions, processed_transactions>>]_vars

C6_Witness ==
    /\ last.call = "get_transaction"
    /\ last.outcome = "no_value"
    /\ last.exit = "exhausted"
    /\ last.calls = MAX_RETRIES
    /\ pc = "scan"

\* C7: in the retry loop an attempt that ends with a rate-limit error is
\* followed by exactly one handle_429(); another attempt follows iff attempts
\* remain, else the error ends the call; a successful attempt calls
\* reset_backoff() and ends the loop.
C7_RetryProtocol ==
    [][pc = "fetch" /\ pc' # "stopped" =>
        /\ last'.outcome = "429" =>
              /\ last'.handled = 1
              /\ ~last'.reset
              /\ rate_limiter'.backoff_time =
                     Min(2 * rate_limiter.backoff_time, BACKOFF_CEILING)
              /\ attempt < MAX_RETRIES - 1 =>
                     /\ last'.exit = "retry"
                     /\ pc' = "fetch"
                     /\ attempt' = attempt + 1
              /\ attempt >= MAX_RETRIES - 1 =>
                     /\ last'.exit = "raised"
                     /\ pc' = "scan"
                     /\ last'.logs = 0
        /\ last'.outcome = "value" =>
              /\ last'.reset
              /\ last'.handled = 0
              /\ rate_limiter'.backoff_time = INITIAL_BACKOFF
              /\ pc' = "scan"]_vars

C7_Witness ==
    /\ last.call = "get_transaction"
    /\ last.outcome = "429"
    /\ last.exit = "raised"
    /\ last.calls = MAX_RETRIES
    /\ last.handled = 1
    /\ rate_limiter.backoff_time = 40

\* C8: a get_transaction attempt that raises an error other than a rate limit
\* ends the call at once: no further attempt, no handle_429(), backoff_time
\* unchanged, and the scan goes on with the next signature.
C8_OtherErrorEndsCall ==
    [][(pc = "fetch" /\ last'.outcome = "error") =>
        /\ last'.handled = 0
        /\ last'.exit = "raised"
        /\ rate_limiter'.backoff_time = rate_limiter.backoff_time
        /\ pc' = "scan"
        /\ sig_index' = sig_index + 1
        /\ UNCHANGED <<wallet, transactions, processed_transactions>>]_vars

C8_Witness ==
    /\ last.call = "get_transaction"
    /\ last.outcome = "error"
    /\ last.calls = 2
    /\ rate_limiter.backoff_time = 10
    /\ pc = "scan"

\* C9 as stated: once a signature has been added to the processed set it is
\* never fetched (or logged) again, in the same or any later cycle: no
\* signature ever gets a second retry loop.
C9_NeverFetchedAgain == last.exit # "again"

\* C9 as amended: a signature that is in the processed set when it is returned
\* is skipped (no get_transaction, no trade record) for as long as it stays in
\* the set; a retry loop begins only for a signature that was not in the set,
\* and get_transaction calls and trade records occur only inside that loop.
C9_SkippedWhileProcessed ==
    [][/\ last'.exit \in {"new", "again"} =>
            /\ last'.sig \notin processed_transactions
            /\ last'.sig \in processed_transactions'
       /\ fetched' # fetched => last'.exit = "new"
       /\ (last'.call = "get_transaction" \/ last'.logs > 0) =>
            /\ pc = "fetch"
            /\ last'.sig = transactions[sig_index]
            /\ last'.sig \in processed_transactions
       /\ (/\ pc = "scan"
           /\ pc' # "stopped"
           /\ sig_index <= Len(transactions)
           /\ transactions[sig_index] \in processed_transactions) =>
            /\ last'.exit = "skip"
            /\ last'.call = "none"
            /\ last'.logs = 0
            /\ pc' = "scan"
            /\ sig_index' = sig_index + 1]_vars

\* the first signature of the first wallet's listing is skipped: it was
\* inserted in an earlier cycle and is returned again
C9_Witness ==
    /\ last.exit = "skip"
    /\ last.sig \in processed_transactions
    /\ wallet = 1
    /\ sig_index = 2

\* C10: when _clean_old_transactions() runs with more signatures than its
\* limit, the set afterwards is exactly the KeepCount most recently added
\* ones, so it still holds the most recently seen signature.
C10_TrimKeepsMostRecent ==
    [][(/\ pc = "clean"
        /\ pc' = "loop"
        /\ Cardinality(processed_transactions) > CleanLimit) =>
        /\ processed_transactions' = LastN(order, KeepCount)
        /\ order[Len(order)] \in processed_transactions']_vars

C12_ResetRestoresInitial ==
    /\ [][gate'.op = "reset_backoff" =>
             /\ rate_limiter'.backoff_time = INITIAL_BACKOFF
             /\ reset_backoff(rate_limiter') = rate_limiter']_vars
    /\ [](gate.resets > 0 =>
             rate_limiter.backoff_time =
                 Min(INITIAL_BACKOFF * Pow2(gate.rejections), BACKOFF_CEILING))

C12_Witness ==
    /\ gate.op = "handle_429"
    /\ gate.resets = 2
    /\ gate.rejections = 3
    /\ rate_limiter.backoff_time = 40

\* C13: handle_429() sleeps the value backoff_time had on entry and doubles it
\* only afterwards: the k-th consecutive rejection since the last reset sleeps
\* min(5 * 2^(k-1), 60) seconds, the first one 5 seconds.
C13_SleepsEntryBackoff ==
    gate.op = "handle_429" =>
        /\ gate.rejections >= 1
        /\ gate.entry_backoff =
               Min(INITIAL_BACKOFF * Pow2(gate.rejections - 1), BACKOFF_CEILING)
        /\ gate.slept >= gate.entry_backoff
        /\ gate.slept <= gate.entry_backoff + MaxSlack
        /\ rate_limiter.backoff_time =
               Min(2 * gate.entry_backoff, BACKOFF_CEILING)

C13_Witness ==
    /\ gate.op = "handle_429"
    /\ gate.rejections = 1
    /\ gate.slept = INITIAL_BACKOFF
    /\ rate_limiter.backoff_time = 10


\* C14: a failure on one item does not abort the pass: an error while fetching
\* or processing one transaction leaves the scan at the next signature of the
\* same listing of the same wallet, and an error while monitoring one wallet
\* leaves the for loop at the next tracked wallet of the same cycle (at the
\* clean-up only after the last wallet).
C14_ItemFailureContinues ==
    [][/\ (pc = "fetch" /\ last'.exit = "raised") =>
            /\ last'.caught
            /\ pc' = "scan"
            /\ sig_index' = sig_index + 1
            /\ UNCHANGED <<wallet, transactions, tracked_wallets>>
       /\ (pc = "wallet" /\ last'.outcome \in {"429", "error"}) =>
            /\ last'.caught
            /\ wallet < tracked_wallets => pc' = "wallet" /\ wallet' = wallet + 1
            /\ wallet = tracked_wallets => pc' = "clean"
            /\ UNCHANGED <<tracked_wallets, processed_transactions>>]_vars

\* listing the first wallet failed; the second wallet is next in the same cycle
C14_Witness ==
    /\ last.call = "get_signatures"
    /\ last.outcome = "error"
    /\ last.caught
    /\ pc = "wallet"
    /\ wallet = 2

\* C15: run() never ends on its own: it stops only by the interrupt; while it
\* is not stopped a further step of the loop is always possible; an exception
\* that reaches the handler of the while loop is logged, followed by a
\* 5-second sleep and the next iteration; with no tracked wallet an iteration
\* sleeps the monitoring interval and loops.
C15_StopsOnlyOnInterrupt ==
    /\ [](pc # "stopped" => ENABLED Iterate)
    /\ [](pc = "stopped" <=> last.exit = "interrupt")
    /\ [][/\ pc' = "stopped" => last'.exit = "interrupt"
          /\ last'.exit = "loop_error" =>
                /\ pc' = "loop"
                /\ last'.error_log = "error"
                /\ last'.loop_sleep = LOOP_ERROR_DELAY
                /\ rate_limiter'.elapsed =
                       Sat(rate_limiter.elapsed + LOOP_ERROR_DELAY)
          /\ (pc = "loop" /\ tracked_wallets = 0 /\ pc' # "stopped") =>
                /\ pc' = "loop"
                /\ last'.exit \in {"idle", "loop_error"}
                /\ last'.exit = "idle" =>
                       last'.loop_sleep = MONITORING_INTERVAL
                /\ UNCHANGED <<tracked_wallets, processed_transactions>>]_vars

\* the handler of the while loop has run and the loop goes on
C15_Witness ==
    /\ last.exit = "loop_error"
    /\ last.loop_sleep = LOOP_ERROR_DELAY
    /\ pc = "loop"
    /\ tracked_wallets > 0
    /\ processed_transactions # {}
    /\ ENABLED Iterate


\* C16: in one pass over a wallet there is exactly one trade log record for
\* each newly fetched transaction that references a known DEX program, and
\* none for any other transaction (transactions whose instructions are all
\* examined without an exception).
C16_OneRecordPerTrade ==
    (last.call = "get_transaction" /\ last.exit = "break" /\ ~last.caught) =>
        last.logs = IF last.trade THEN 1 ELSE 0

\* C20: on every path on which the monitor catches an exception at least one
\* log record is emitted before execution goes on.
C20_EveryCaughtErrorLogged == last.caught => last.error_log # "none"


\* the sum of post[i] - pre[i] over the first n positions
RECURSIVE PairSum(_, _, _)
PairSum(post, pre, n) ==
    IF n = 0 THEN 0 ELSE (post[n] - pre[n]) + PairSum(post, pre, n - 1)

\* C17: the amount reported for a transaction is, in lamports, the absolute
\* value of the sum over index-aligned pairs of (post - pre) balances,
\* converted at 10^9 lamports per SOL, and 0 when either list is empty or
\* missing; a difference of 2,000,000,000 lamports is reported as 2.0 SOL.
C17_AmountIsAbsBalanceChange ==
    (parse.state = "returned" /\ parse.dict) =>
        LET pre == parse.preBalances
            post == parse.postBalances
            change == PairSum(post, pre, Min(Len(post), Len(pre)))
            lamports == IF change < 0 THEN 0 - change ELSE change
        IN  /\ parse.amount.whole * LamportsPerSol + parse.amount.nano =
                   IF pre = <<>> \/ post = <<>> THEN 0 ELSE lamports
            /\ parse.amount.nano \in 0..(LamportsPerSol - 1)
            /\ (pre # <<>> /\ post # <<>> /\ lamports = 2 * LamportsPerSol) =>
                   parse.amount = [whole |-> 2, nano |-> 0]

\* balances falling by two SOL worth of lamports on the one aligned pair
C17_Witness ==
    /\ parse.state = "returned"
    /\ parse.dict
    /\ parse.preBalances = <<2 * LamportsPerSol, 1>>
    /\ parse.postBalances = <<0>>
    /\ parse.amount = [whole |-> 2, nano |-> 0]


\* C18: for a wallet that is not tracked yet, with a given balance and a list
\* of transactions holding at least one trade, the analysis accepts iff
\* balance >= MIN_SOL_BALANCE and trades / ANALYSIS_PERIOD_DAYS >=
\* MIN_TRADES_DAY and successes / trades >= MIN_SUCCESS_RATE and
\* profit_count / trades >= MIN_PROFIT_TRADE; the decision is a function of
\* these inputs (trades, successes and profit_count as the analysis counts
\* them, every response having been read without an exception).
C18_DecisionByThresholds ==
    LET a == analysis IN
    (a.pc = "done" /\ ~a.tracked /\ ~a.raised) =>
        /\ a.result \in {"accepted", "rejected"}
        /\ a.balance < MIN_SOL_BALANCE * LamportsPerSol => a.result = "rejected"
        /\ a.total_trades >= 1 =>
              (a.result = "accepted" <=>
                  /\ a.balance >= MIN_SOL_BALANCE * LamportsPerSol
                  /\ a.total_trades >= MIN_TRADES_DAY * ANALYSIS_PERIOD_DAYS
                  /\ 100 * a.success_count >= MIN_SUCCESS_RATE_PCT * a.total_trades
                  /\ 100 * a.profit_count >= MIN_PROFIT_TRADE_PCT * a.total_trades)

\* accepted exactly at the minimums: 14 trades in 7 days, half of them
\* successful, the minimum balance
C18_Witness ==
    /\ analysis.pc = "done"
    /\ analysis.result = "accepted"
    /\ analysis.balance = MIN_SOL_BALANCE * LamportsPerSol
    /\ analysis.total_trades = MIN_TRADES_DAY * ANALYSIS_PERIOD_DAYS
    /\ 2 * analysis.success_count = analysis.total_trades

\* C19: the analysis counts a transaction as a trade iff it references at
\* least one of the known DEX programs (Raydium, Jupiter, Orca).
C19_TradeIffKnownDex ==
    (analysis.pc = "loop" /\ analysis.examined >= 1 /\ analysis.tx.value) =>
        (analysis.counted <=> analysis.tx.programs # {})


\* C21: there is one rate limiter state per process: a second or later
\* GlobalRateLimiter() returns the same instance and leaves last_request,
\* min_interval and backoff_time as they were, so a backoff grown through one
\* reference is seen through every other (the first construction initialises).
C21_SingleInstance ==
    /\ GlobalRateLimiter(None) = NewRateLimiter
    /\ GlobalRateLimiter(rate_limiter) = rate_limiter
    /\ gate.op = "construct" =>
          /\ rate_limiter.backoff_time = gate.entry_backoff
          /\ rate_limiter.elapsed = gate.entry_elapsed
          /\ rate_limiter.min_interval = MIN_INTERVAL
          /\ rate_limiter.backoff_time =
                 Min(INITIAL_BACKOFF * Pow2(gate.rejections), BACKOFF_CEILING)

\* a construction after two rejections and a wait() observes their effects
C21_Witness ==
    /\ gate.op = "construct"
    /\ gate.rejections = 2
    /\ rate_limiter.backoff_time = 20
    /\ rate_limiter.elapsed = 0


\* C22: with two coroutines using the one GlobalRateLimiter and interleaving
\* at wait()'s suspension point, any two returns of wait(), from whichever
\* callers, are at least min_interval apart.
C22_ReturnsSpacedCollectively ==
    race.returns >= 2 => race.gap >= rate_limiter.min_interval


\* C23: discovery survives a bad item: when the analysis of one candidate
\* wallet raises at any step, that wallet is rejected and not added to the
\* discovered wallets, the remaining candidates can still be analysed, and
\* find_profitable_wallets() returns normally.
C23_DiscoverySurvivesBadItem ==
    /\ [][(analysis'.raised /\ ~analysis.raised) =>
             /\ analysis'.pc = "done"
             /\ analysis'.result = "rejected"
             /\ analysis'.discovered = analysis.discovered
             /\ analysis'.candidate = analysis.candidate]_vars
    /\ [](analysis.raised => analysis.candidate \notin analysis.discovered)
    /\ [](analysis.pc = "done" =>
             /\ ENABLED FinderReturn
             /\ analysis.candidate < NumCandidates => ENABLED NextCandidate)
    /\ [](analysis.pc \in {"none", "start", "loop", "done", "returned",
                            "exited", "monitoring"})

\* the second wallet raised while its transactions were read, after the first
\* one had been accepted; the discovery can return
C23_Witness ==
    /\ analysis.pc = "done"
    /\ analysis.raised
    /\ analysis.examined >= 1
    /\ analysis.candidate = 2
    /\ analysis.discovered = {1}
    /\ ENABLED FinderReturn

\* C24: in execute mode, when discovery returns a non-empty list of wallets,
\* the monitor that is started tracks every discovered wallet.
C24_MonitorTracksDiscovered ==
    analysis.pc = "monitoring" =>
        tracked_wallets = Cardinality(analysis.discovered)


\* C25: a new signature is in the processed set before its transaction is
\* fetched; only _clean_old_transactions() ever removes a signature; a fetch
\* that ends in exhausted retries or in an error leaves the signature in the
\* set, so while it stays there a later listing of it is skipped.
C25_InsertedBeforeFetch ==
    /\ [](pc = "fetch" => transactions[sig_index] \in processed_transactions)
    /\ [][/\ ~(processed_transactions \subseteq processed_transactions') =>
                pc = "clean"
          /\ last'.call = "get_transaction" =>
                /\ last'.sig \in processed_transactions
                /\ last'.sig \in processed_transactions'
          /\ processed_transactions' # processed_transactions =>
                \/ pc = "clean"
                \/ /\ pc = "scan"
                   /\ pc' = "fetch"
                   /\ processed_transactions' =
                          processed_transactions \cup {transactions[sig_index]}
          /\ (/\ last'.call = "get_transaction"
              /\ last'.exit \in {"exhausted", "raised"}) =>
                /\ processed_transactions' = processed_transactions
                /\ IsProcessed(last'.sig, processed_transactions')
          /\ (/\ pc = "scan"
              /\ pc' # "stopped"
              /\ sig_index <= Len(transactions)
              /\ transactions[sig_index] \in processed_transactions) =>
                /\ last'.exit = "skip"
                /\ last'.call = "none"
                /\ pc' = "scan"]_vars

\* the retries of a fetch have just been exhausted: its signature stays in
\* the set, next to one inserted earlier
C25_Witness ==
    /\ last.call = "get_transaction"
    /\ last.exit = "exhausted"
    /\ last.sig \in processed_transactions
    /\ Cardinality(processed_transactions) >= 2

\* C26: when get_signatures_for_address is rate-limited, monitor_wallet calls
\* handle_429() exactly once and returns: no second signature fetch for that
\* wallet in the cycle, no get_transaction for it, processed set unchanged.
C26_RateLimitedListingReturns ==
    [][(pc = "wallet" /\ last'.outcome = "429") =>
        /\ last'.call = "get_signatures"
        /\ last'.handled = 1
        /\ last'.exit = "return"
        /\ last'.calls = 0
        /\ rate_limiter'.backoff_time =
               Min(2 * rate_limiter.backoff_time, BACKOFF_CEILING)
        /\ pc' \in {"wallet", "clean"}
        /\ pc' = "wallet" => wallet' = wallet + 1
        /\ transactions' = <<>>
        /\ UNCHANGED <<processed_transactions, fetched, tracked_wallets>>]_vars

\* the listing of the first wallet was rate-limited twice in a row of cycles
C26_Witness ==
    /\ last.call = "get_signatures"
    /\ last.outcome = "429"
    /\ last.handled = 1
    /\ rate_limiter.backoff_time = 20
    /\ pc = "wallet"
    /\ wallet = 2

\* C27: after any prefix of an analysed wallet's transaction list
\* 0 <= profit_count <= success_count <= total_trades and
\* 2 * profit_count <= total_trades, so the profit rate never exceeds 1/2 and
\* the comparison against any MIN_PROFIT_TRADE above 0.5 rejects the wallet.
C27_ProfitCountBounds ==
    LET a == analysis IN
    /\ 0 <= a.profit_count
    /\ a.profit_count <= a.success_count
    /\ a.success_count <= a.total_trades
    /\ a.total_trades <= a.examined
    /\ 2 * a.profit_count <= a.total_trades
    /\ \A min_pct \in 51..100 :
          a.total_trades >= 1 => a.profit_count * 100 < min_pct * a.total_trades

\* every second trade of four successful ones was counted as profitable
C27_Witness ==
    /\ analysis.pc = "loop"
    /\ analysis.total_trades = 4
    /\ analysis.success_count = 4
    /\ analysis.profit_count = 2

====
